---- MODULE Spec2Model ----
(***************************************************************************)
(* GcodeUnExtruder: process_3mf_file of Process.py as a state machine.     *)
(*                                                                         *)
(* Text is a sequence of one-character strings, so that splitlines, join,  *)
(* substring search, the regular expression and split("E", 1) are computed *)
(* character by character.  Files on disk are records                      *)
(* [kind, entries]: kind "none" (no such file), "partial" (a file that is  *)
(* not a readable ZIP archive) or "zip" (a readable archive whose entries  *)
(* are [name, data] in archive order).                                     *)
(***************************************************************************)
EXTENDS Naturals, Integers, Sequences, FiniteSets, TLC

VARIABLES
    path,            \* the argument of process_3mf_file
    orig,            \* the file at path
    temp,            \* the file at path + ".tmp"
    pc,              \* position in process_3mf_file
    result,          \* the value returned (meaningful when pc = "done")
    reason,          \* which message was printed before returning
    original_gcode, lines, block_start_idx, block_end_idx, block_lines,
    filtered_lines, modified_lines, modified_block, new_lines,
    new_gcode_text, all_files,
    in0,             \* history: the file at path when the call began
    temp0,           \* history: the file at path + ".tmp" when the call began
    prevOk,          \* history: the previous call on this path returned True
    failedAt,        \* history: the I/O step that raised in this call, or ""
    calls            \* history: the number of calls begun on this path

disk   == <<path, orig, temp>>
locals == <<original_gcode, lines, block_start_idx, block_end_idx, block_lines,
            filtered_lines, modified_lines, modified_block, new_lines,
            new_gcode_text, all_files>>
hist   == <<in0, temp0, prevOk, failedAt, calls>>
vars   == <<disk, pc, result, reason, locals, hist>>

----------------------------------------------------------------------------
(* Bounds of the input space *)

MaxLines == 4   \* longest instruction stream drawn over the marker pool
MaxBlock == 3   \* longest block drawn over the content pool
MaxCrLf  == 3   \* longest stream also given with \r\n and \r line ends
MaxFaultLines == 3   \* longest stream of the runs that meet I/O errors
MaxCalls == 2   \* calls of process_3mf_file on the same path

----------------------------------------------------------------------------
(* Constants of the program *)

LF == "\n"
CR == "\r"
BadByte == "<ff>"     \* a byte that is not valid UTF-8

gcode_path == "Metadata/plate_1.gcode"
start_tag == <<";"," ","M","A","C","H","I","N","E","_","S","T","A","R","T","_","G","C","O","D","E","_","E","N","D">>
end_tag == <<";"," ","M","A","C","H","I","N","E","_","E","N","D","_","G","C","O","D","E","_","S","T","A","R","T">>
None == -1            \* Python's None for the two block indices

Digits == {"0","1","2","3","4","5","6","7","8","9"}
WordChars == Digits \cup
    {"a","b","c","d","e","f","g","h","i","j","k","l","m","n","o","p","q","r",
     "s","t","u","v","w","x","y","z","A","B","C","D","E","F","G","H","I","J",
     "K","L","M","N","O","P","Q","R","S","T","U","V","W","X","Y","Z","_"}

----------------------------------------------------------------------------
(* String functions *)

At(s, i) == IF i \in 1..Len(s) THEN s[i] ELSE ""

\* tag in line
Contains(line, tag) ==
    \E i \in 0..(Len(line) - Len(tag)) : SubSeq(line, i + 1, i + Len(tag)) = tag

\* bytes.decode("utf-8", errors="ignore"): invalid bytes are dropped
Decode(bytes) == SelectSeq(bytes, LAMBDA c : c # BadByte)

\* the k-th smallest element of a set of positions
Kth(S, k) == CHOOSE b \in S : Cardinality({x \in S : x < b}) = k - 1

\* text cut at the breaks that start at the positions of S; endOf[i] is the
\* last position of the break that starts at i
Pieces(text, S, endOf) ==
    LET n == Cardinality(S)
    IN [k \in 1..(n + 1) |->
            SubSeq(text,
                   IF k = 1 THEN 1 ELSE endOf[Kth(S, k - 1)] + 1,
                   IF k = n + 1 THEN Len(text) ELSE Kth(S, k) - 1)]

\* where a line break starts: at \r, and at \n unless it ends a \r\n
BreakStarts(text) ==
    { i \in 1..Len(text) :
        text[i] = CR \/ (text[i] = LF /\ At(text, i - 1) # CR) }

BreakEnd(text, i) == IF text[i] = CR /\ At(text, i + 1) = LF THEN i + 1 ELSE i

\* str.splitlines(): breaks at \n, \r\n and \r; no empty last line
Splitlines(text) ==
    LET p == Pieces(text, BreakStarts(text),
                    [i \in BreakStarts(text) |-> BreakEnd(text, i)])
    IN IF p[Len(p)] = <<>> THEN SubSeq(p, 1, Len(p) - 1) ELSE p

RECURSIVE JoinFrom(_, _, _)
JoinFrom(ls, i, sep) ==
    IF i > Len(ls) THEN <<>>
    ELSE IF i = Len(ls) THEN ls[i]
    ELSE ls[i] \o sep \o JoinFrom(ls, i + 1, sep)

\* sep.join(ls)
Join(ls, sep) == JoinFrom(ls, 1, sep)

\* the index of the first "E" of line, or Len(line) + 1
FirstE(line) ==
    IF \E i \in 1..Len(line) : line[i] = "E"
    THEN CHOOSE i \in 1..Len(line) :
            line[i] = "E" /\ \A j \in 1..(i - 1) : line[j] # "E"
    ELSE Len(line) + 1

\* line.split("E", 1)[0]
Left(line) == SubSeq(line, 1, FirstE(line) - 1)

UpperCase == <<"A","B","C","D","E","F","G","H","I","J","K","L","M","N","O","P","Q","R","S","T","U","V","W","X","Y","Z">>
LowerCase == <<"a","b","c","d","e","f","g","h","i","j","k","l","m","n","o","p","q","r","s","t","u","v","w","x","y","z">>

\* path.lower()
Lower(s) ==
    [i \in 1..Len(s) |->
        IF \E k \in 1..26 : UpperCase[k] = s[i]
        THEN LowerCase[CHOOSE k \in 1..26 : UpperCase[k] = s[i]]
        ELSE s[i]]

\* s.endswith(suffix)
EndsWith(s, suffix) ==
    /\ Len(s) >= Len(suffix)
    /\ SubSeq(s, Len(s) - Len(suffix) + 1, Len(s)) = suffix

----------------------------------------------------------------------------
(* The regular expression                                                  *)
(*   ^G\d*\b(?=.*\b[XY]-?\d*\.?\d+)(?=.*\bE-?\d*\.?\d+).*   (re.MULTILINE)   *)

\* \b before the character at position i
Boundary(line, i) == (At(line, i - 1) \in WordChars) # (At(line, i) \in WordChars)

\* \d*\.?\d+ matches at position s
NumAt(line, s) ==
    \/ At(line, s) \in Digits
    \/ At(line, s) = "." /\ At(line, s + 1) \in Digits

\* \b[letters]-?\d*\.?\d+ matches at position r
ParamAt(line, r, letters) ==
    /\ Boundary(line, r)
    /\ At(line, r) \in letters
    /\ \/ NumAt(line, r + 1)
       \/ At(line, r + 1) = "-" /\ NumAt(line, r + 2)

\* the positions at which G\d*\b can end, over every length of \d*
HeadEnds(line) ==
    { q \in 2..(Len(line) + 1) :
        /\ At(line, 1) = "G"
        /\ \A j \in 2..(q - 1) : line[j] \in Digits
        /\ Boundary(line, q) }

\* (?=.*\b[letters]...) at position q of a line without line breaks
Lookahead(line, q, letters) == \E r \in q..Len(line) : ParamAt(line, r, letters)

\* a faulty variant of PatternMatches: the lookahead for the E parameter is missing
PatternWithoutE(line) ==
    \E q \in HeadEnds(line) : Lookahead(line, q, {"X", "Y"})

\* the pattern matches at the start of the line; the match is the whole line
PatternMatches(line) ==
    \E q \in HeadEnds(line) :
        /\ Lookahead(line, q, {"X", "Y"})
        /\ Lookahead(line, q, {"E"})

\* the \n-delimited segments of text
Segments(text) ==
    Pieces(text, { i \in 1..Len(text) : text[i] = LF }, [i \in 1..Len(text) |-> i])

\* a faulty variant of Findall: every segment is returned, matching or not
FindallEverySegment(text) == Segments(text)

\* pattern.findall(text): ^ matches at the start and after each \n, . matches
\* everything but \n, so the matches are the \n-delimited segments that match
Findall(text) == SelectSeq(Segments(text), PatternMatches)

\* line in ls
In(line, ls) == \E i \in 1..Len(ls) : ls[i] = line

----------------------------------------------------------------------------
(* Files *)

NoFile      == [kind |-> "none",    entries |-> <<>>]
PartialFile == [kind |-> "partial", entries |-> <<>>]
ZipFile(es) == [kind |-> "zip",     entries |-> es]

Names(file) == { file.entries[i].name : i \in 1..Len(file.entries) }

\* zin.read(name): the payload of the entry called name
ReadEntry(file, name) ==
    file.entries[CHOOSE i \in 1..Len(file.entries) : file.entries[i].name = name].data

\* path + ".tmp" is the variable temp; os.path.exists
Exists(file) == file.kind # "none"

----------------------------------------------------------------------------
(* Block extraction: the loop over enumerate(lines), i counted from 0 *)

RECURSIVE Scan(_, _, _, _, _)
Scan(ls, i, collect, bs, blk) ==
    IF i >= Len(ls) THEN [start |-> bs, end |-> None, block |-> blk]
    ELSE IF Contains(ls[i + 1], start_tag)
         THEN Scan(ls, i + 1, TRUE, i + 1, blk)
    ELSE IF Contains(ls[i + 1], end_tag) /\ collect
         THEN [start |-> bs, end |-> i, block |-> blk]
    ELSE IF collect
         THEN Scan(ls, i + 1, collect, bs, Append(blk, ls[i + 1]))
    ELSE Scan(ls, i + 1, collect, bs, blk)

\* a faulty variant of ExtractBlock: a block still open at the end of the stream is
\* closed there
ExtractBlockOpenEnd(ls) ==
    LET r == Scan(ls, 0, FALSE, None, <<>>)
    IN IF r.start # None /\ r.end = None THEN [r EXCEPT !.end = Len(ls)] ELSE r

ExtractBlock(ls) == Scan(ls, 0, FALSE, None, <<>>)

----------------------------------------------------------------------------
(* Line rewriting *)

E0  == <<"E", "0">>
E01 == <<"E", ".", "0", "1">>

\* a faulty variant of NewLine: the last match, not the second-to-last, gets E.01
NewLineLast(fl, i) ==
    IF i = Len(fl) - 1 THEN Left(fl[i + 1]) \o E01 ELSE Left(fl[i + 1]) \o E0

\* the body of the loop over enumerate(filtered_lines); i counted from 0
NewLine(fl, i) ==
    IF i = Len(fl) - 2 THEN Left(fl[i + 1]) \o E01 ELSE Left(fl[i + 1]) \o E0

ModifyAll(fl) == [k \in 1..Len(fl) |-> NewLine(fl, k - 1)]

\* the loop over enumerate(modified_block), with the counter fi
RECURSIVE Replace(_, _, _, _, _)
Replace(blk, fl, ml, i, fi) ==
    IF i >= Len(blk) THEN blk
    ELSE IF In(blk[i + 1], fl)
         THEN Replace([blk EXCEPT ![i + 1] = ml[fi + 1]], fl, ml, i + 1, fi + 1)
    ELSE Replace(blk, fl, ml, i + 1, fi)

ReplaceAll(blk, fl, ml) == Replace(blk, fl, ml, 0, 0)

\* lines[:block_start_idx] + modified_block + lines[block_end_idx:]
Reassemble(ls, bs, be, mb) ==
    SubSeq(ls, 1, bs) \o mb \o SubSeq(ls, be + 1, Len(ls))

\* a faulty variant of OtherEntries: the other payloads are decoded as text on the way
OtherEntriesDecoded(file) ==
    [i \in 1..Len(SelectSeq(file.entries, LAMBDA e : e.name # gcode_path)) |->
        LET e == SelectSeq(file.entries, LAMBDA x : x.name # gcode_path)[i]
        IN [name |-> e.name, data |-> Decode(e.data)]]

\* the entries other than the target, as the dict all_files holds them
OtherEntries(file) == SelectSeq(file.entries, LAMBDA e : e.name # gcode_path)

\* what the with-block writes to the temporary archive
NewEntries(af, text) == af \o <<[name |-> gcode_path, data |-> text]>>

----------------------------------------------------------------------------
(* Inputs *)

StartLine == start_tag
EndLine   == end_tag
Cand      == <<"G","1"," ","X","1"," ","E","5">>
EFirst    == <<"G","1"," ","E","5"," ","X","1">>
Trailing  == <<"G"," ","Y","-",".","5"," ","E","-","1"," ","F","3">>
NoE       == <<"G","1"," ","X","1">>
NoXY      == <<"G","1"," ","E","5">>
NotG      == <<"M","1"," ","X","1"," ","E","5">>
Glued     == <<"G","1","X","1"," ","E","5">>

MarkerPool  == {StartLine, EndLine, Cand}
ContentPool == {Cand, EFirst, Trailing, NoE, NoXY, NotG, Glued}

SeqsUpTo(S, n) == UNION { [1..k -> S] : k \in 0..n }

Streams ==
    SeqsUpTo(MarkerPool, MaxLines)
    \cup { <<StartLine>> \o b \o <<EndLine>> : b \in SeqsUpTo(ContentPool, MaxBlock) }

\* the stream as text: \n between lines; for the short streams also \r\n after
\* every line, and \r between lines
Texts ==
    { Join(ls, <<LF>>) : ls \in Streams }
    \cup { Join([i \in 1..Len(ls) |-> ls[i] \o <<CR, LF>>], <<>>) :
                ls \in SeqsUpTo(MarkerPool, MaxCrLf) }
    \cup { Join(ls, <<CR>>) : ls \in SeqsUpTo(MarkerPool, MaxCrLf) }

SampleText == Join(<<StartLine, Cand, EndLine>>, <<LF>>)
BadText    == Join(<<StartLine, <<BadByte>> \o Cand \o <<BadByte>>, EndLine>>, <<LF>>)

Model3D == [name |-> "3D/3dmodel.model",     data |-> <<"m", BadByte, LF>>]
Thumb   == [name |-> "Metadata/plate_1.png", data |-> <<"p", CR, LF>>]

Archive(text) == ZipFile(<<Model3D, [name |-> gcode_path, data |-> text], Thumb>>)

P3mf   == <<"a", ".", "3", "m", "f">>
PUpper == <<"A", ".", "3", "M", "F">>
PTxt   == <<"a", ".", "t", "x", "t">>
Ext3mf == <<".", "3", "m", "f">>

----------------------------------------------------------------------------
(* The state machine *)

InitLocals ==
    /\ original_gcode = <<>> /\ lines = <<>>
    /\ block_start_idx = None /\ block_end_idx = None /\ block_lines = <<>>
    /\ filtered_lines = <<>> /\ modified_lines = <<>> /\ modified_block = <<>>
    /\ new_lines = <<>> /\ new_gcode_text = <<>> /\ all_files = <<>>

\* the streams of the runs that meet I/O errors
FaultTexts == { Join(ls, <<LF>>) : ls \in SeqsUpTo(MarkerPool, MaxFaultLines) }

InitOn(texts) ==
    /\ \/ path = P3mf /\ \E t \in texts \cup {BadText} : orig = Archive(t)
       \/ path \in {PUpper, PTxt} /\ orig = Archive(SampleText)
       \/ path = P3mf /\ orig \in {ZipFile(<<Model3D, Thumb>>), PartialFile}
    /\ temp = NoFile
    /\ pc = "start" /\ result = FALSE /\ reason = ""
    /\ InitLocals
    /\ in0 = orig /\ temp0 = temp /\ prevOk = FALSE /\ failedAt = "" /\ calls = 1

Init == InitOn(FaultTexts)

InitRewrite == InitOn(Texts)

Return(res, why) == pc' = "done" /\ result' = res /\ reason' = why

Goto(label) == pc' = label /\ UNCHANGED <<result, reason>>

\* lines 9-11
StartNotFound ==
    /\ pc = "start" /\ ~Exists(orig)
    /\ Return(FALSE, "InvalidInput")
    /\ UNCHANGED <<disk, locals, hist>>

\* lines 13-15
StartNot3mf ==
    /\ pc = "start" /\ Exists(orig) /\ ~EndsWith(Lower(path), Ext3mf)
    /\ Return(FALSE, "InvalidInput")
    /\ UNCHANGED <<disk, locals, hist>>

StartOk ==
    /\ pc = "start" /\ Exists(orig) /\ EndsWith(Lower(path), Ext3mf)
    /\ Goto("read")
    /\ UNCHANGED <<disk, locals, hist>>

\* lines 29-32
ReadTarget ==
    /\ pc = "read" /\ orig.kind = "zip" /\ gcode_path \in Names(orig)
    /\ original_gcode' = Decode(ReadEntry(orig, gcode_path))
    /\ Goto("extract")
    /\ UNCHANGED <<disk, hist, lines, block_start_idx, block_end_idx, block_lines,
                   filtered_lines, modified_lines, modified_block, new_lines,
                   new_gcode_text, all_files>>

\* lines 33-35: not an archive, or no such entry
ReadTargetFails ==
    /\ pc = "read" /\ ~(orig.kind = "zip" /\ gcode_path \in Names(orig))
    /\ Return(FALSE, "ReadError")
    /\ failedAt' = "read"
    /\ UNCHANGED <<disk, locals, in0, temp0, prevOk, calls>>

\* lines 38-60
Extract ==
    /\ pc = "extract"
    /\ LET ls == Splitlines(original_gcode)
           r  == ExtractBlock(ls)
       IN /\ lines' = ls
          /\ block_start_idx' = r.start
          /\ block_end_idx' = r.end
          /\ block_lines' = r.block
          /\ IF r.start = None \/ r.end = None
             THEN Return(FALSE, "BlockNotFound")
             ELSE Goto("filter")
    /\ UNCHANGED <<disk, hist, original_gcode, filtered_lines, modified_lines,
                   modified_block, new_lines, new_gcode_text, all_files>>

\* lines 62-68
Filter ==
    /\ pc = "filter"
    /\ LET fl == Findall(Join(block_lines, <<LF>>))
       IN /\ filtered_lines' = fl
          /\ IF fl = <<>> THEN Return(FALSE, "NoMatches") ELSE Goto("modify")
    /\ UNCHANGED <<disk, hist, original_gcode, lines, block_start_idx,
                   block_end_idx, block_lines, modified_lines, modified_block,
                   new_lines, new_gcode_text, all_files>>

\* lines 72-116
Rewrite ==
    /\ pc = "modify"
    /\ LET ml == ModifyAll(filtered_lines)
           mb == ReplaceAll(block_lines, filtered_lines, ml)
           nl == Reassemble(lines, block_start_idx, block_end_idx, mb)
       IN /\ modified_lines' = ml
          /\ modified_block' = mb
          /\ new_lines' = nl
          /\ new_gcode_text' = Join(nl, <<LF>>)
    /\ Goto("readall")
    /\ UNCHANGED <<disk, hist, original_gcode, lines, block_start_idx,
                   block_end_idx, block_lines, filtered_lines, all_files>>

\* lines 142-146: an exception of the write-back at the named step
Raise(step) ==
    /\ Return(FALSE, "WriteError")
    /\ failedAt' = step
    /\ UNCHANGED <<in0, temp0, prevOk, calls>>

UnchangedText == UNCHANGED <<original_gcode, lines, block_start_idx, block_end_idx,
                             block_lines, filtered_lines, modified_lines,
                             modified_block, new_lines, new_gcode_text>>

\* lines 123-127
ReadAll ==
    /\ pc = "readall"
    /\ all_files' = OtherEntries(orig)
    /\ Goto("open")
    /\ UNCHANGED <<disk, hist>> /\ UnchangedText

ReadAllFails ==
    /\ pc = "readall"
    /\ Raise("readall")
    /\ UNCHANGED <<disk, locals>>

\* a faulty variant of OpenTemp: the original is removed before the replacement is written
OpenTempAfterRemove ==
    /\ pc = "open"
    /\ orig' = NoFile
    /\ temp' = PartialFile
    /\ Goto("write")
    /\ UNCHANGED <<path, locals, hist>>

\* line 130: mode "w" creates or truncates the file
OpenTemp ==
    /\ pc = "open"
    /\ temp' = PartialFile
    /\ Goto("write")
    /\ UNCHANGED <<path, orig, locals, hist>>

OpenTempFails ==
    /\ pc = "open"
    /\ Raise("open")
    /\ UNCHANGED <<disk, locals>>

\* lines 131-134
WriteEntries ==
    /\ pc = "write"
    /\ temp' = [kind |-> "partial", entries |-> NewEntries(all_files, new_gcode_text)]
    /\ Goto("close")
    /\ UNCHANGED <<path, orig, locals, hist>>

WriteEntriesFails ==
    /\ pc = "write"
    /\ Raise("write")
    /\ UNCHANGED <<disk, locals>>

\* the end of the with-block of line 130: the central directory is written
CloseTemp ==
    /\ pc = "close"
    /\ temp' = ZipFile(temp.entries)
    /\ Goto("remove")
    /\ UNCHANGED <<path, orig, locals, hist>>

CloseTempFails ==
    /\ pc = "close"
    /\ temp' = PartialFile
    /\ Raise("close")
    /\ UNCHANGED <<path, orig, locals>>

\* line 137
RemoveOriginal ==
    /\ pc = "remove"
    /\ orig' = NoFile
    /\ Goto("rename")
    /\ UNCHANGED <<path, temp, locals, hist>>

RemoveOriginalFails ==
    /\ pc = "remove"
    /\ Raise("remove")
    /\ UNCHANGED <<disk, locals>>

\* lines 138-140
RenameTemp ==
    /\ pc = "rename"
    /\ orig' = temp /\ temp' = NoFile
    /\ Return(TRUE, "")
    /\ UNCHANGED <<path, locals, hist>>

RenameTempFails ==
    /\ pc = "rename"
    /\ Raise("rename")
    /\ UNCHANGED <<disk, locals>>

\* the caller calls process_3mf_file again on the same path (lines 165-187)
CallAgain ==
    /\ pc = "done" /\ calls < MaxCalls
    /\ pc' = "start" /\ result' = FALSE /\ reason' = ""
    /\ original_gcode' = <<>> /\ lines' = <<>>
    /\ block_start_idx' = None /\ block_end_idx' = None /\ block_lines' = <<>>
    /\ filtered_lines' = <<>> /\ modified_lines' = <<>> /\ modified_block' = <<>>
    /\ new_lines' = <<>> /\ new_gcode_text' = <<>> /\ all_files' = <<>>
    /\ in0' = orig /\ temp0' = temp /\ prevOk' = result /\ failedAt' = ""
    /\ calls' = calls + 1
    /\ UNCHANGED disk

Next ==
    \/ StartNotFound \/ StartNot3mf \/ StartOk
    \/ ReadTarget \/ ReadTargetFails
    \/ Extract \/ Filter \/ Rewrite
    \/ ReadAll \/ ReadAllFails
    \/ OpenTemp \/ OpenTempFails
    \/ WriteEntries \/ WriteEntriesFails
    \/ CloseTemp \/ CloseTempFails
    \/ RemoveOriginal \/ RemoveOriginalFails
    \/ RenameTemp \/ RenameTempFails
    \/ CallAgain

Spec == Init /\ [][Next]_vars

\* the runs in which no step of the write-back raises, over the wider inputs
NextRewrite ==
    \/ StartNot3mf \/ StartOk
    \/ ReadTarget \/ ReadTargetFails
    \/ Extract \/ Filter \/ Rewrite
    \/ ReadAll \/ OpenTemp \/ WriteEntries \/ CloseTemp
    \/ RemoveOriginal \/ RenameTemp
    \/ CallAgain

SpecRewrite == InitRewrite /\ [][NextRewrite]_vars

----------------------------------------------------------------------------
(* The statements checked *)

\* the call got past validation and could read the target of its input
Readable ==
    /\ in0.kind = "zip" /\ gcode_path \in Names(in0)
    /\ EndsWith(Lower(path), Ext3mf)

\* the instruction stream the call was given
InputLines == Splitlines(Decode(ReadEntry(in0, gcode_path)))

HasStart(line) == Contains(line, start_tag)
HasEnd(line)   == Contains(line, end_tag)

\* lines 72-116 have run in this call
Rewritten == modified_lines # <<>>

\* the disk is as the call found it
Untouched == orig = in0 /\ temp = temp0

AllDigits(line, a, b) == \A j \in a..b : At(line, j) \in Digits

\* line[s..e] is a number: optional sign, optional digits, optional decimal
\* point, required digits
NumberIs(line, s, e) ==
    LET s1 == IF At(line, s) = "-" THEN s + 1 ELSE s
    IN /\ s1 <= e /\ e <= Len(line)
       /\ \/ AllDigits(line, s1, e)
          \/ \E d \in s1..(e - 1) :
                line[d] = "." /\ AllDigits(line, s1, d - 1) /\ AllDigits(line, d + 1, e)

\* the line contains a parameter token: one of the letters, then a number
HasParam(line, letters) ==
    \E r \in 1..Len(line) : \E e \in (r + 1)..Len(line) :
        line[r] \in letters /\ NumberIs(line, r + 1, e)

\* the text of a match before its first "E": its longest prefix without "E"
BeforeE(line) ==
    LET k == CHOOSE k \in 0..Len(line) :
                /\ \A j \in 1..k : line[j] # "E"
                /\ (k < Len(line) => line[k + 1] = "E")
    IN SubSeq(line, 1, k)

\* C1: when process_3mf_file returns success, the archive at path has the
\* names of the input archive, and every resource but the target has the
\* payload it had.
C1_OthersUntouched ==
    (pc = "done" /\ result) =>
        /\ orig.kind = "zip"
        /\ Names(orig) = Names(in0)
        /\ \A n \in Names(in0) \ {gcode_path} : ReadEntry(orig, n) = ReadEntry(in0, n)

C1_Witness ==
    /\ pc = "done" /\ result
    /\ Names(in0) \ {gcode_path} # {}
    /\ ReadEntry(orig, gcode_path) # ReadEntry(in0, gcode_path)

\* C2 as stated: the original is gone only when the replacement is a complete
\* archive, and when the construction of the temporary archive fails (opening
\* it, writing it or closing it) the original is as it was, the temporary
\* file is on disk and the call returns failure.
C2_TempAlwaysLeft ==
    /\ Exists(orig) \/ temp.kind = "zip"
    /\ (pc = "done" /\ failedAt \in {"open", "write", "close"}) =>
            orig = in0 /\ ~result /\ Exists(temp)

\* C2 amended: the original is gone only when the replacement is a complete
\* archive holding the other resources and the new text; when the temporary
\* archive cannot be opened, no temporary file is created (the file at
\* path + ".tmp" is as the call found it); when writing or closing it fails,
\* the temporary file is left on disk; in all three cases the original is as
\* it was and the call returns failure.
C2_OriginalOutlivesConstruction ==
    /\ Exists(orig) \/ temp.kind = "zip"
    /\ (pc = "rename" \/ (pc = "done" /\ failedAt = "rename")) =>
            /\ ~Exists(orig)
            /\ temp = ZipFile(NewEntries(OtherEntries(in0), new_gcode_text))
    /\ (pc = "done" /\ failedAt \in {"open", "write", "close"}) =>
            /\ orig = in0 /\ ~result
            /\ failedAt = "open" => temp = temp0
            /\ failedAt # "open" => Exists(temp)

C2_Witness ==
    /\ pc = "done" /\ failedAt = "write"
    /\ orig = in0 /\ temp.kind = "partial" /\ ~result

\* no start-marker line is followed by a later end-marker line (in
\* particular: no start-marker line at all)
NoBlock(ls) ==
    \A i \in 1..Len(ls) : HasStart(ls[i]) => \A j \in (i + 1)..Len(ls) : ~HasEnd(ls[j])

\* C3: on a stream without a start marker, or whose start marker is not
\* followed by an end marker, the call never writes, removes or renames a
\* file, and it returns failure reporting BlockNotFound.
C3_NoBlockNoWrite ==
    \/ Untouched /\ pc # "done"
    \/ ~(Readable /\ NoBlock(InputLines))
    \/ Untouched /\ ~result /\ reason = "BlockNotFound"

C3_Witness ==
    /\ pc = "done" /\ reason = "BlockNotFound" /\ ~result
    /\ \E i \in 1..Len(lines) : HasStart(lines[i])
    /\ \E i \in 1..Len(lines) : HasEnd(lines[i])

\* the index of the first start-marker line, and of the first end-marker line
\* after it
FirstStart(ls) == CHOOSE i \in 1..Len(ls) :
    HasStart(ls[i]) /\ \A j \in 1..(i - 1) : ~HasStart(ls[j])

FirstEnd(ls) == CHOOSE j \in (FirstStart(ls) + 1)..Len(ls) :
    HasEnd(ls[j]) /\ \A k \in (FirstStart(ls) + 1)..(j - 1) : ~HasEnd(ls[k])

\* a start marker followed by an end marker
WellFormed(ls) ==
    \E i \in 1..Len(ls) : \E j \in (i + 1)..Len(ls) : HasStart(ls[i]) /\ HasEnd(ls[j])

\* the structural pattern of a candidate line, in words: it begins with the G
\* instruction token and holds an X-or-Y parameter and an E parameter
Structural(line) ==
    /\ At(line, 1) = "G"
    /\ HasParam(line, {"X", "Y"})
    /\ HasParam(line, {"E"})

C6_SecondPassFixedPoint ==
    (pc = "done" /\ prevOk /\ failedAt = "") => (result /\ new_lines = lines)

\* C7: a block line is selected, and rewritten, only if it begins with G and
\* holds both an X-or-Y parameter and an E parameter; a line that is not
\* selected is left as it was.
C7_OnlyStructuralLinesSelected ==
    /\ \A i \in 1..Len(filtered_lines) : Structural(filtered_lines[i])
    /\ Rewritten =>
        /\ Len(modified_block) = Len(block_lines)
        /\ \A k \in 1..Len(block_lines) :
            /\ modified_block[k] # block_lines[k] => Structural(block_lines[k])
            /\ ~In(block_lines[k], filtered_lines) => modified_block[k] = block_lines[k]
            /\ ~HasParam(block_lines[k], {"E"}) => modified_block[k] = block_lines[k]
            /\ ~HasParam(block_lines[k], {"X", "Y"}) => modified_block[k] = block_lines[k]

C7_Witness ==
    /\ Rewritten
    /\ \E k \in 1..Len(block_lines) : block_lines[k] = NoE /\ modified_block[k] = NoE
    /\ \E k \in 1..Len(block_lines) : block_lines[k] = NoXY /\ modified_block[k] = NoXY
    /\ \E k \in 1..Len(block_lines) : modified_block[k] # block_lines[k]

\* new is old with the value of one E parameter replaced by "0" or ".01"
OnlyEValueDiffers(old, new) ==
    \E p \in 1..Len(old) : \E e \in (p + 1)..Len(old) :
        /\ old[p] = "E" /\ NumberIs(old, p + 1, e)
        /\ ~(At(old, e + 1) \in Digits)
        /\ \E v \in {<<"0">>, <<".", "0", "1">>} :
                new = SubSeq(old, 1, p) \o v \o SubSeq(old, e + 1, Len(old))

\* C8 as stated: a rewritten line differs from the line it replaces only in
\* the value of the E parameter.
C8_OnlyEValueChanges ==
    Rewritten =>
        \A i \in 1..Len(filtered_lines) :
            OnlyEValueDiffers(filtered_lines[i], modified_lines[i])

\* C9 as stated: when a block is found, blockStart is the index after the
\* first start-marker line, and blockLines is the slice
\* lines[blockStart .. blockEnd) of the stream.
C9_FirstStartOnly ==
    (block_start_idx # None /\ block_end_idx # None) =>
        /\ block_start_idx = FirstStart(lines)
        /\ block_lines = SubSeq(lines, block_start_idx + 1, block_end_idx)

\* the positions of the stream, counted from 1, that are candidate lines of
\* the block
CandidatePositions ==
    { k \in (block_start_idx + 1)..block_end_idx : PatternMatches(lines[k]) }

\* C10 as stated: on success the reassembled stream has as many lines as the
\* input, every line that is not a candidate position of the block is the
\* input line of the same index, and the k-th candidate position holds the
\* rewrite of the k-th match.
C10_ReassemblyInPlace ==
    (pc = "done" /\ result) =>
        /\ Len(new_lines) = Len(lines)
        /\ \A k \in 1..Len(lines) :
                k \notin CandidatePositions => new_lines[k] = lines[k]
        /\ \A k \in CandidatePositions :
                new_lines[k] =
                    modified_lines[Cardinality({ j \in CandidatePositions : j <= k })]

====
